---------------------------- MODULE Spec2Model ----------------------------
(***************************************************************************)
(* GenoPilot (app/routes.py): the genotype-to-phenotype classifiers for    *)
(* DPYD, UGT1A1 and CYP2D6, the recommendation resolver rtext_short, the   *)
(* star labels of the selectors (_collect_stars), the preview handler      *)
(* index and the export handler generate.                                  *)
(*                                                                         *)
(* Python strings are modelled as sequences of one-character strings, so   *)
(* that formatting, splitting, prefix and substring tests and lower() are  *)
(* computed character by character as the code computes them.  The         *)
(* accented letters and the en dash of the literals are written as the     *)
(* one-element tokens "a_ac", "e_ac", "i_ac", "o_ac", "u_ac" and "ndash".  *)
(* A Python exception is modelled as a result whose field raised names it. *)
(***************************************************************************)
EXTENDS Integers, Sequences, FiniteSets, TLC

VARIABLES
    MARKERS,    \* routes.py:36  marker definitions, gene -> list of rows
    CYP_PHENO,  \* routes.py:40  CYP2D6 diplotype -> phenotype rows
    RECS,       \* routes.py:42  recommendation rows
    PDF_ENABLED,\* routes.py:21-22, :618  IS_WINDOWS and not DISABLE_PDF
    res,        \* the last call of a classifier or of rtext_short and its result
    clock,      \* wall clock of the host, in seconds
    req,        \* per generate request: its position and its locals
    files       \* the temporary directory: path -> document stored there

vars == <<MARKERS, CYP_PHENO, RECS, PDF_ENABLED, res, clock, req, files>>

dataVars == <<MARKERS, CYP_PHENO, RECS, PDF_ENABLED>>

genVars == <<clock, req, files>>

-----------------------------------------------------------------------------
(* String literals of routes.py *)

\* STAR1 = "*1"
STAR1 == <<"*","1">>
\* STAR28 = "*28"
STAR28 == <<"*","2","8">>
\* STAR80 = "*80"
STAR80 == <<"*","8","0">>
\* STAR6 = "*6"
STAR6 == <<"*","6">>
\* STAR37 = "*37"
STAR37 == <<"*","3","7">>
\* STAR3 = "*3"
STAR3 == <<"*","3">>
\* STAR4 = "*4"
STAR4 == <<"*","4">>
\* STAR5 = "*5"
STAR5 == <<"*","5">>
\* STAR7 = "*7"
STAR7 == <<"*","7">>
\* STAR14 = "*14"
STAR14 == <<"*","1","4">>
\* STAR15 = "*15"
STAR15 == <<"*","1","5">>
\* STAR19 = "*19"
STAR19 == <<"*","1","9">>
\* STAR59 = "*59"
STAR59 == <<"*","5","9">>
\* STAR10 = "*10"
STAR10 == <<"*","1","0">>
\* STAR17 = "*17"
STAR17 == <<"*","1","7">>
\* STAR29 = "*29"
STAR29 == <<"*","2","9">>
\* STAR41 = "*41"
STAR41 == <<"*","4","1">>
\* STAR56B = "*56B"
STAR56B == <<"*","5","6","B">>
\* DIPL_1_1 = "*1/*1"
DIPL_1_1 == <<"*","1","/","*","1">>
\* DIPL_1_28 = "*1/*28"
DIPL_1_28 == <<"*","1","/","*","2","8">>
\* DIPL_28_28 = "*28/*28"
DIPL_28_28 == <<"*","2","8","/","*","2","8">>
\* NO_CALL = "-/-"
NO_CALL == <<"-","/","-">>
\* DASH = "-"
DASH == <<"-">>
\* SLASH = "/"
SLASH == <<"/">>
\* STAR1_SLASH = "*1/"
STAR1_SLASH == <<"*","1","/">>
\* GENO_CC = "C/C"
GENO_CC == <<"C","/","C">>
\* GENO_CT = "C/T"
GENO_CT == <<"C","/","T">>
\* GENO_TC = "T/C"
GENO_TC == <<"T","/","C">>
\* GENO_TT = "T/T"
GENO_TT == <<"T","/","T">>
\* PH_NORMAL = "Metabolizador normal"
PH_NORMAL == <<"M","e","t","a","b","o","l","i","z","a","d","o","r"," ","n","o","r","m","a","l">>
\* PH_INTERMEDIO = "Metabolizador intermedio"
PH_INTERMEDIO ==
    <<"M","e","t","a","b","o","l","i","z","a","d","o","r"," ","i","n","t","e","r","m","e","d",
      "i","o">>
\* PH_LENTO = "Metabolizador lento"
PH_LENTO == <<"M","e","t","a","b","o","l","i","z","a","d","o","r"," ","l","e","n","t","o">>
\* PH_POBRE = "Metabolizador pobre"
PH_POBRE == <<"M","e","t","a","b","o","l","i","z","a","d","o","r"," ","p","o","b","r","e">>
\* PH_ULTRA = "Metabolizador ultrarr<a_ac>pido"
PH_ULTRA ==
    <<"M","e","t","a","b","o","l","i","z","a","d","o","r"," ","u","l","t","r","a","r","r",
      "a_ac","p","i","d","o">>
\* PH_INDETERMINADO = "Indeterminado"
PH_INDETERMINADO == <<"I","n","d","e","t","e","r","m","i","n","a","d","o">>
\* EN_POOR = "Poor Metabolizer"
EN_POOR == <<"P","o","o","r"," ","M","e","t","a","b","o","l","i","z","e","r">>
\* EN_INTERMEDIATE = "Intermediate Metabolizer"
EN_INTERMEDIATE ==
    <<"I","n","t","e","r","m","e","d","i","a","t","e"," ","M","e","t","a","b","o","l","i","z",
      "e","r">>
\* EN_NORMAL = "Normal Metabolizer"
EN_NORMAL == <<"N","o","r","m","a","l"," ","M","e","t","a","b","o","l","i","z","e","r">>
\* EN_ULTRARAPID = "Ultrarapid Metabolizer"
EN_ULTRARAPID ==
    <<"U","l","t","r","a","r","a","p","i","d"," ","M","e","t","a","b","o","l","i","z","e","r">>
\* K_NORMAL = "Normal"
K_NORMAL == <<"N","o","r","m","a","l">>
\* K_INTERMEDIATE = "Intermediate"
K_INTERMEDIATE == <<"I","n","t","e","r","m","e","d","i","a","t","e">>
\* K_POOR = "Poor"
K_POOR == <<"P","o","o","r">>
\* K_ULTRARAPID = "Ultrarapid"
K_ULTRARAPID == <<"U","l","t","r","a","r","a","p","i","d">>
\* KEY_NORMAL = "metabolizador normal"
KEY_NORMAL == <<"m","e","t","a","b","o","l","i","z","a","d","o","r"," ","n","o","r","m","a","l">>
\* KEY_INTERMEDIO = "metabolizador intermedio"
KEY_INTERMEDIO ==
    <<"m","e","t","a","b","o","l","i","z","a","d","o","r"," ","i","n","t","e","r","m","e","d",
      "i","o">>
\* KEY_LENTO = "metabolizador lento"
KEY_LENTO == <<"m","e","t","a","b","o","l","i","z","a","d","o","r"," ","l","e","n","t","o">>
\* KEY_POBRE = "metabolizador pobre"
KEY_POBRE == <<"m","e","t","a","b","o","l","i","z","a","d","o","r"," ","p","o","b","r","e">>
\* KEY_ULTRA = "metabolizador ultrarr<a_ac>pido"
KEY_ULTRA ==
    <<"m","e","t","a","b","o","l","i","z","a","d","o","r"," ","u","l","t","r","a","r","r",
      "a_ac","p","i","d","o">>
\* REC_DPYD_NORMAL = "Dosis est<a_ac>ndar seg<u_ac>n ficha t<e_ac>cnica."
REC_DPYD_NORMAL ==
    <<"D","o","s","i","s"," ","e","s","t","a_ac","n","d","a","r"," ","s","e","g","u_ac","n"," ",
      "f","i","c","h","a"," ","t","e_ac","c","n","i","c","a",".">>
\* REC_DPYD_INTERMEDIO = "Reducir dosis inicial; titular y monitorizar."
REC_DPYD_INTERMEDIO ==
    <<"R","e","d","u","c","i","r"," ","d","o","s","i","s"," ","i","n","i","c","i","a","l",";",
      " ","t","i","t","u","l","a","r"," ","y"," ","m","o","n","i","t","o","r","i","z","a","r",
      ".">>
\* REC_DPYD_LENTO = "Evitar fluoropirimidinas; valorar alternativas."
REC_DPYD_LENTO ==
    <<"E","v","i","t","a","r"," ","f","l","u","o","r","o","p","i","r","i","m","i","d","i","n",
      "a","s",";"," ","v","a","l","o","r","a","r"," ","a","l","t","e","r","n","a","t","i","v",
      "a","s",".">>
\* REC_UGT_NORMAL = "Dosis est<a_ac>ndar seg<u_ac>n ficha t<e_ac>cnica."
REC_UGT_NORMAL ==
    <<"D","o","s","i","s"," ","e","s","t","a_ac","n","d","a","r"," ","s","e","g","u_ac","n"," ",
      "f","i","c","h","a"," ","t","e_ac","c","n","i","c","a",".">>
\* REC_UGT_INTERMEDIO = "Considerar reducci<o_ac>n dosis; monitorizar neutropenia."
REC_UGT_INTERMEDIO ==
    <<"C","o","n","s","i","d","e","r","a","r"," ","r","e","d","u","c","c","i","o_ac","n"," ",
      "d","o","s","i","s",";"," ","m","o","n","i","t","o","r","i","z","a","r"," ","n","e","u",
      "t","r","o","p","e","n","i","a",".">>
\* REC_UGT_LENTO = "Reducir dosis inicial (30<ndash>50%); monitorizaci<o_ac>n estrecha."
REC_UGT_LENTO ==
    <<"R","e","d","u","c","i","r"," ","d","o","s","i","s"," ","i","n","i","c","i","a","l"," ",
      "(","3","0","ndash","5","0","%",")",";"," ","m","o","n","i","t","o","r","i","z","a","c",
      "i","o_ac","n"," ","e","s","t","r","e","c","h","a",".">>
\* REC_CYP_NORMAL = "Dosis est<a_ac>ndar."
REC_CYP_NORMAL == <<"D","o","s","i","s"," ","e","s","t","a_ac","n","d","a","r",".">>
\* REC_CYP_INTERMEDIO = "Considerar terapia hormonal alternativa."
REC_CYP_INTERMEDIO ==
    <<"C","o","n","s","i","d","e","r","a","r"," ","t","e","r","a","p","i","a"," ","h","o","r",
      "m","o","n","a","l"," ","a","l","t","e","r","n","a","t","i","v","a",".">>
\* REC_CYP_POBRE = "Evitar tamoxifeno; alternativa terap<e_ac>utica."
REC_CYP_POBRE ==
    <<"E","v","i","t","a","r"," ","t","a","m","o","x","i","f","e","n","o",";"," ","a","l","t",
      "e","r","n","a","t","i","v","a"," ","t","e","r","a","p","e_ac","u","t","i","c","a",".">>
\* REC_CYP_ULTRA = "Valorar alternativas seg<u_ac>n contexto."
REC_CYP_ULTRA ==
    <<"V","a","l","o","r","a","r"," ","a","l","t","e","r","n","a","t","i","v","a","s"," ","s",
      "e","g","u_ac","n"," ","c","o","n","t","e","x","t","o",".">>
\* SAFE_FALLBACK = "No hay recomendaci<o_ac>n espec<i_ac>fica en las gu<i_ac>as cargadas para este fenotipo/diplotipo. Seguir ficha t<e_ac>cnica y monitorizar estrechamente."
SAFE_FALLBACK ==
    <<"N","o"," ","h","a","y"," ","r","e","c","o","m","e","n","d","a","c","i","o_ac","n"," ",
      "e","s","p","e","c","i_ac","f","i","c","a"," ","e","n"," ","l","a","s"," ","g","u","i_ac",
      "a","s"," ","c","a","r","g","a","d","a","s"," ","p","a","r","a"," ","e","s","t","e"," ",
      "f","e","n","o","t","i","p","o","/","d","i","p","l","o","t","i","p","o","."," ","S","e",
      "g","u","i","r"," ","f","i","c","h","a"," ","t","e_ac","c","n","i","c","a"," ","y"," ",
      "m","o","n","i","t","o","r","i","z","a","r"," ","e","s","t","r","e","c","h","a","m","e",
      "n","t","e",".">>
\* NOTE_DPYD_MANUAL = "DPYD diplotipo manual: "
NOTE_DPYD_MANUAL ==
    <<"D","P","Y","D"," ","d","i","p","l","o","t","i","p","o"," ","m","a","n","u","a","l",":",
      " ">>
\* NOTE_UGT_MANUAL = "UGT1A1 diplotipo manual: "
NOTE_UGT_MANUAL ==
    <<"U","G","T","1","A","1"," ","d","i","p","l","o","t","i","p","o"," ","m","a","n","u","a",
      "l",":"," ">>
\* NOTE_CYP_MANUAL = "CYP2D6 diplotipo manual: "
NOTE_CYP_MANUAL ==
    <<"C","Y","P","2","D","6"," ","d","i","p","l","o","t","i","p","o"," ","m","a","n","u","a",
      "l",":"," ">>
\* NOTE_UGT_MARKER = "UGT1A1*80 (rs887829): "
NOTE_UGT_MARKER ==
    <<"U","G","T","1","A","1","*","8","0"," ","(","r","s","8","8","7","8","2","9",")",":"," ">>
\* NOTE_OPEN = " ("
NOTE_OPEN == <<" ","(">>
\* NOTE_CLOSE = "): "
NOTE_CLOSE == <<")",":"," ">>
\* HTTP = "http://"
HTTP == <<"h","t","t","p",":","/","/">>
\* HTTPS = "https://"
HTTPS == <<"h","t","t","p","s",":","/","/">>

-----------------------------------------------------------------------------
(* Python string operations *)

\* str.lower() on the letters A-Z; every other character is left as it is
UpperToLower ==
    ("A" :> "a") @@ ("B" :> "b") @@ ("C" :> "c") @@ ("D" :> "d") @@ ("E" :> "e") @@
    ("F" :> "f") @@ ("G" :> "g") @@ ("H" :> "h") @@ ("I" :> "i") @@ ("J" :> "j") @@
    ("K" :> "k") @@ ("L" :> "l") @@ ("M" :> "m") @@ ("N" :> "n") @@ ("O" :> "o") @@
    ("P" :> "p") @@ ("Q" :> "q") @@ ("R" :> "r") @@ ("S" :> "s") @@ ("T" :> "t") @@
    ("U" :> "u") @@ ("V" :> "v") @@ ("W" :> "w") @@ ("X" :> "x") @@ ("Y" :> "y") @@
    ("Z" :> "z")

Lower(s) ==
    [i \in 1..Len(s) |-> IF s[i] \in DOMAIN UpperToLower THEN UpperToLower[s[i]] ELSE s[i]]

\* the printable ASCII characters in code-point order, from 32 (space) on; the
\* double quote, the backslash and the backtick are written as tokens
Ascii ==
    <<" ","!","dquote","#","$","%","&","'","(",")","*","+",",","-",".","/",
      "0","1","2","3","4","5","6","7","8","9",":",";","<","=",">","?","@",
      "A","B","C","D","E","F","G","H","I","J","K","L","M","N","O","P","Q","R","S","T","U",
      "V","W","X","Y","Z","[","backslash","]","^","_","backtick",
      "a","b","c","d","e","f","g","h","i","j","k","l","m","n","o","p","q","r","s","t","u",
      "v","w","x","y","z","{","|","}","~">>

Ord(c) == CHOOSE i \in 1..Len(Ascii) : Ascii[i] = c

\* a < b, the order of Python str comparison (by code point, a prefix first)
RECURSIVE StrLess(_, _)
StrLess(a, b) ==
    IF b = <<>> THEN FALSE
    ELSE IF a = <<>> THEN TRUE
    ELSE IF Head(a) = Head(b) THEN StrLess(Tail(a), Tail(b))
    ELSE Ord(Head(a)) < Ord(Head(b))

\* sub in s
Contains(s, sub) ==
    \E i \in 0..(Len(s) - Len(sub)) : SubSeq(s, i + 1, i + Len(sub)) = sub

\* s.startswith(k)
StartsWith(s, k) == Len(k) <= Len(s) /\ SubSeq(s, 1, Len(k)) = k

\* \s of the re module, over the characters of the model
IsSpace(c) == c = " "

\* s.split(sep) for a one-character sep: one more part than there are sep in s
RECURSIVE SplitOn(_, _)
SplitOn(s, sep) ==
    IF \A i \in 1..Len(s) : s[i] # sep THEN <<s>>
    ELSE LET i == CHOOSE k \in 1..Len(s) :
                     s[k] = sep /\ \A j \in 1..(k - 1) : s[j] # sep
         IN  <<SubSeq(s, 1, i - 1)>> \o SplitOn(SubSeq(s, i + 1, Len(s)), sep)

\* s.strip() for whitespace
RECURSIVE Strip(_)
Strip(s) ==
    IF s = <<>> THEN s
    ELSE IF IsSpace(Head(s)) THEN Strip(Tail(s))
    ELSE IF IsSpace(s[Len(s)]) THEN Strip(SubSeq(s, 1, Len(s) - 1))
    ELSE s

\* s.split(): the maximal runs of non-whitespace, none of them empty
RECURSIVE SplitWS(_)
SplitWS(s) ==
    LET t == Strip(s) IN
    IF t = <<>> THEN <<>>
    ELSE IF \A i \in 1..Len(t) : ~IsSpace(t[i]) THEN <<t>>
    ELSE LET i == CHOOSE k \in 1..Len(t) :
                     IsSpace(t[k]) /\ \A j \in 1..(k - 1) : ~IsSpace(t[j])
         IN  <<SubSeq(t, 1, i - 1)>> \o SplitWS(SubSeq(t, i + 1, Len(t)))

\* re.split(r"[\/,\s]+", s)[0]: the characters before the first separator
IsAltSep(c) == c \in {"/", ","} \/ IsSpace(c)

FirstAltToken(s) ==
    IF \A i \in 1..Len(s) : ~IsAltSep(s[i]) THEN s
    ELSE LET i == CHOOSE k \in 1..Len(s) :
                     IsAltSep(s[k]) /\ \A j \in 1..(k - 1) : ~IsAltSep(s[j])
         IN  SubSeq(s, 1, i - 1)

\* f"{a}/{b}"
Slashed(a, b) == a \o SLASH \o b

-----------------------------------------------------------------------------
(* Python values *)

\* None and a present value x of an optional field
NoneVal == <<>>
Some(x) == <<x>>

\* x or "" for an optional string x
OrEmpty(x) == IF x = NoneVal THEN <<>> ELSE x[1]

\* values.get(col, "-/-")
GetGeno(values, col) == IF col \in DOMAIN values THEN values[col] ELSE NO_CALL

\* what a classifier returns: (dipl, pheno, rec, notes), or the exception it raises
Returned(dipl, pheno, rec, notes) ==
    [raised |-> "none", dipl |-> dipl, pheno |-> pheno, rec |-> rec, notes |-> notes]

Raised(exc) ==
    [raised |-> exc, dipl |-> <<>>, pheno |-> <<>>, rec |-> <<>>, notes |-> <<>>]

-----------------------------------------------------------------------------
(* Recommendation resolver *)

SHORT_REC ==
    << [gene |-> "DPYD",   pheno |-> KEY_NORMAL,     text |-> REC_DPYD_NORMAL],
       [gene |-> "DPYD",   pheno |-> KEY_INTERMEDIO, text |-> REC_DPYD_INTERMEDIO],
       [gene |-> "DPYD",   pheno |-> KEY_LENTO,      text |-> REC_DPYD_LENTO],
       [gene |-> "UGT1A1", pheno |-> KEY_NORMAL,     text |-> REC_UGT_NORMAL],
       [gene |-> "UGT1A1", pheno |-> KEY_INTERMEDIO, text |-> REC_UGT_INTERMEDIO],
       [gene |-> "UGT1A1", pheno |-> KEY_LENTO,      text |-> REC_UGT_LENTO],
       [gene |-> "CYP2D6", pheno |-> KEY_NORMAL,     text |-> REC_CYP_NORMAL],
       [gene |-> "CYP2D6", pheno |-> KEY_INTERMEDIO, text |-> REC_CYP_INTERMEDIO],
       [gene |-> "CYP2D6", pheno |-> KEY_POBRE,      text |-> REC_CYP_POBRE],
       [gene |-> "CYP2D6", pheno |-> KEY_ULTRA,      text |-> REC_CYP_ULTRA] >>

\* re.sub(r"\[.*?\]", "", t): each "[" with a "]" after it is removed up to the
\* nearest such "]"; a "[" with no "]" after it stays
RECURSIVE StripBrackets(_)
StripBrackets(t) ==
    IF t = <<>> THEN t
    ELSE IF Head(t) = "[" /\ \E j \in 2..Len(t) : t[j] = "]"
    THEN LET j == CHOOSE k \in 2..Len(t) :
                      t[k] = "]" /\ \A i \in 2..(k - 1) : t[i] # "]"
         IN  StripBrackets(SubSeq(t, j + 1, Len(t)))
    ELSE <<Head(t)>> \o StripBrackets(Tail(t))

\* the length of the longest prefix of t without whitespace
RECURSIVE NonSpaceRun(_)
NonSpaceRun(t) ==
    IF t = <<>> \/ IsSpace(Head(t)) THEN 0 ELSE 1 + NonSpaceRun(Tail(t))

\* re.sub(r"https?://\S+", "", t): "http://" or "https://" followed by at least
\* one non-whitespace character is removed up to the next whitespace
RECURSIVE StripUrls(_)
StripUrls(t) ==
    IF t = <<>> THEN t
    ELSE LET scheme == IF StartsWith(t, HTTP) THEN Len(HTTP)
                       ELSE IF StartsWith(t, HTTPS) THEN Len(HTTPS)
                       ELSE 0
             rest   == SubSeq(t, scheme + 1, Len(t))
         IN  IF scheme > 0 /\ NonSpaceRun(rest) > 0
             THEN StripUrls(SubSeq(rest, NonSpaceRun(rest) + 1, Len(rest)))
             ELSE <<Head(t)>> \o StripUrls(Tail(t))

\* re.sub(r"\s+", " ", t): every run of whitespace becomes one space
RECURSIVE CollapseSpaces(_)
CollapseSpaces(t) ==
    IF t = <<>> THEN t
    ELSE IF IsSpace(Head(t))
    THEN IF Len(t) > 1 /\ IsSpace(t[2]) THEN CollapseSpaces(Tail(t))
         ELSE <<" ">> \o CollapseSpaces(Tail(t))
    ELSE <<Head(t)>> \o CollapseSpaces(Tail(t))

\* routes.py:92-94
CleanLongText(long_text) ==
    Strip(CollapseSpaces(StripUrls(StripBrackets(OrEmpty(long_text)))))

\* rtext_short returning the cleaned long text even when it is empty
rtext_short_no_fallback(gene, pheno, long_text) ==
    LET hit == {i \in 1..Len(SHORT_REC) :
                    SHORT_REC[i].gene = gene /\ SHORT_REC[i].pheno = Lower(pheno)}
    IN  IF hit # {} THEN SHORT_REC[CHOOSE i \in hit : TRUE].text
        ELSE CleanLongText(long_text)

rtext_short(gene, pheno, long_text) ==
    LET hit == {i \in 1..Len(SHORT_REC) :
                    SHORT_REC[i].gene = gene /\ SHORT_REC[i].pheno = Lower(pheno)}
        t   == CleanLongText(long_text)
    IN  IF hit # {} THEN SHORT_REC[CHOOSE i \in hit : TRUE].text
        ELSE IF t = <<>> THEN SAFE_FALLBACK
        ELSE t

\* next((r for r in RECS if r["Gene"] == gene and r["Phenotype"].lower() in
\* pheno.lower()), None), then (rec_row or {}).get("RecText")
RecTextOf(rows) == IF rows = {} THEN NoneVal
                   ELSE RECS[CHOOSE i \in rows : \A j \in rows : i <= j].RecText

\* RecTextFor matching the phenotype by equality instead of containment
RecTextForExact(gene, pheno) ==
    RecTextOf({i \in 1..Len(RECS) :
                   RECS[i].Gene = gene /\ Lower(pheno) = Lower(RECS[i].Phenotype)})

RecTextFor(gene, pheno) ==
    RecTextOf({i \in 1..Len(RECS) :
                   RECS[i].Gene = gene
                   /\ Contains(Lower(pheno), Lower(RECS[i].Phenotype))})

-----------------------------------------------------------------------------
(* DPYD *)

\* var -> alt (routes.py:116 and :249)
AltOf(var) == IF var # <<>> THEN FirstAltToken(var) ELSE <<>>

\* MarkerEvents counting a homozygous variant once
MarkerEventsHomOnce(ref, alt, star, geno) ==
    IF alt # <<>> /\ alt # DASH
    THEN IF geno \in {Slashed(ref, alt), Slashed(alt, ref), Slashed(alt, alt)} THEN <<star>>
         ELSE <<>>
    ELSE <<>>

\* the occurrences of star one marker contributes (routes.py:117-121, :252-256)
MarkerEvents(ref, alt, star, geno) ==
    IF alt # <<>> /\ alt # DASH
    THEN IF geno \in {Slashed(ref, alt), Slashed(alt, ref)} THEN <<star>>
         ELSE IF geno = Slashed(alt, alt) THEN <<star, star>>
         ELSE <<>>
    ELSE <<>>

\* f"{col} ({m['rsid']}): {geno}"
PolymNote(m, geno) == m.column \o NOTE_OPEN \o m.rsid \o NOTE_CLOSE \o geno

RECURSIVE PolymNotes(_, _)
PolymNotes(ms, values) ==
    IF ms = <<>> THEN <<>>
    ELSE <<PolymNote(Head(ms), GetGeno(values, Head(ms).column))>>
         \o PolymNotes(Tail(ms), values)

RECURSIVE DpydStarsList(_, _)
DpydStarsList(ms, values) ==
    IF ms = <<>> THEN <<>>
    ELSE LET m == Head(ms)
         IN  MarkerEvents(m.ref, AltOf(m.var), m.star, GetGeno(values, m.column))
             \o DpydStarsList(Tail(ms), values)

dpyd_from_markers(values) ==
    LET stars_list == DpydStarsList(MARKERS["DPYD"], values)
        polym      == PolymNotes(MARKERS["DPYD"], values)
        dipl  == IF stars_list = <<>> THEN DIPL_1_1
                 ELSE IF Len(stars_list) = 1 THEN STAR1_SLASH \o stars_list[1]
                 ELSE Slashed(stars_list[1], stars_list[2])
        pheno == IF stars_list = <<>> THEN PH_NORMAL
                 ELSE IF Len(stars_list) = 1 THEN PH_INTERMEDIO
                 ELSE PH_LENTO
    IN  Returned(dipl, pheno, rtext_short("DPYD", pheno, RecTextFor("DPYD", pheno)), polym)

\* dpyd_from_diplotype taking one allele other than "*1" for two
dpyd_from_diplotype_any_non1(a1, a2) ==
    LET non1  == (IF a1 # STAR1 THEN 1 ELSE 0) + (IF a2 # STAR1 THEN 1 ELSE 0)
        pheno == IF non1 = 0 THEN PH_NORMAL ELSE PH_LENTO
        dipl  == Slashed(a1, a2)
    IN  Returned(dipl, pheno, rtext_short("DPYD", pheno, RecTextFor("DPYD", pheno)),
                 <<NOTE_DPYD_MANUAL \o dipl>>)

dpyd_from_diplotype(a1, a2) ==
    LET non1  == (IF a1 # STAR1 THEN 1 ELSE 0) + (IF a2 # STAR1 THEN 1 ELSE 0)
        pheno == IF non1 = 0 THEN PH_NORMAL
                 ELSE IF non1 = 1 THEN PH_INTERMEDIO
                 ELSE PH_LENTO
        dipl  == Slashed(a1, a2)
    IN  Returned(dipl, pheno, rtext_short("DPYD", pheno, RecTextFor("DPYD", pheno)),
                 <<NOTE_DPYD_MANUAL \o dipl>>)

-----------------------------------------------------------------------------
(* UGT1A1 *)

\* ugt1a1_from_markers not recognising the genotype written T/C
ugt1a1_from_markers_no_TC(geno) ==
    LET polym == <<NOTE_UGT_MARKER \o geno>>
        dipl  == IF geno = GENO_CC THEN DIPL_1_1
                 ELSE IF geno = GENO_CT THEN DIPL_1_28
                 ELSE IF geno = GENO_TT THEN DIPL_28_28
                 ELSE NO_CALL
        pheno == IF geno = GENO_CC THEN PH_NORMAL
                 ELSE IF geno = GENO_CT THEN PH_INTERMEDIO
                 ELSE IF geno = GENO_TT THEN PH_LENTO
                 ELSE PH_INDETERMINADO
    IN  Returned(dipl, pheno, rtext_short("UGT1A1", pheno, RecTextFor("UGT1A1", pheno)),
                 polym)

ugt1a1_from_markers(geno) ==
    LET polym == <<NOTE_UGT_MARKER \o geno>>
        dipl  == IF geno = GENO_CC THEN DIPL_1_1
                 ELSE IF geno \in {GENO_CT, GENO_TC} THEN DIPL_1_28
                 ELSE IF geno = GENO_TT THEN DIPL_28_28
                 ELSE NO_CALL
        pheno == IF geno = GENO_CC THEN PH_NORMAL
                 ELSE IF geno \in {GENO_CT, GENO_TC} THEN PH_INTERMEDIO
                 ELSE IF geno = GENO_TT THEN PH_LENTO
                 ELSE PH_INDETERMINADO
    IN  Returned(dipl, pheno, rtext_short("UGT1A1", pheno, RecTextFor("UGT1A1", pheno)),
                 polym)

\* Sorted2 keeping the order of its arguments
Sorted2Unsorted(a1, a2) == <<a1, a2>>

\* sorted([a1, a2])
Sorted2(a1, a2) == IF StrLess(a2, a1) THEN <<a2, a1>> ELSE <<a1, a2>>

ugt1a1_from_diplotype(a1, a2) ==
    LET decreased == {STAR28, STAR80, STAR6, STAR37}
        pair  == Slashed(Sorted2(a1, a2)[1], Sorted2(a1, a2)[2])
        count == (IF a1 \in decreased THEN 1 ELSE 0) + (IF a2 \in decreased THEN 1 ELSE 0)
        pheno == IF count = 0 THEN PH_NORMAL
                 ELSE IF count = 1 THEN PH_INTERMEDIO
                 ELSE PH_LENTO
    IN  Returned(pair, pheno, rtext_short("UGT1A1", pheno, RecTextFor("UGT1A1", pheno)),
                 <<NOTE_UGT_MANUAL \o pair>>)

-----------------------------------------------------------------------------
(* CYP2D6 *)

\* ascore scoring a reduced-function allele like a no-function allele
ascore_reduced_as_loss(star) ==
    LET loss    == {STAR3, STAR4, STAR5, STAR6, STAR7, STAR14, STAR15, STAR19, STAR59}
        reduced == {STAR10, STAR17, STAR29, STAR41, STAR56B}
    IN  IF star \in loss \/ star \in reduced THEN 0 ELSE 4

\* ascore scoring a full-function allele 1.25 (5 quarters)
ascore_function_above_one(star) ==
    LET loss    == {STAR3, STAR4, STAR5, STAR6, STAR7, STAR14, STAR15, STAR19, STAR59}
        reduced == {STAR10, STAR17, STAR29, STAR41, STAR56B}
    IN  IF star \in loss THEN 0
        ELSE IF star \in reduced THEN 2
        ELSE 5

\* the activity score of a star allele, in quarters (0.0, 0.5, 1.0 -> 0, 2, 4)
ascore(star) ==
    LET loss    == {STAR3, STAR4, STAR5, STAR6, STAR7, STAR14, STAR15, STAR19, STAR59}
        reduced == {STAR10, STAR17, STAR29, STAR41, STAR56B}
    IN  IF star \in loss THEN 0
        ELSE IF star \in reduced THEN 2
        ELSE 4

\* [raised, v]: the phenotype label of dipl, or ValueError when the unpacking
\* a1, a2 = dipl.split("/") does not get exactly two parts
_cyp_lookup_pheno(dipl) ==
    LET rows  == {i \in 1..Len(CYP_PHENO) : CYP_PHENO[i].Diplotype = dipl}
        parts == SplitOn(dipl, "/")
        s     == ascore(parts[1]) + ascore(parts[2])
    IN  IF rows # {}
        THEN [raised |-> "none",
              v |-> CYP_PHENO[CHOOSE i \in rows : \A j \in rows : i <= j].Summary]
        ELSE IF Len(parts) # 2 THEN [raised |-> "ValueError", v |-> <<>>]
        ELSE IF s = 0 THEN [raised |-> "none", v |-> EN_POOR]
        ELSE IF s <= 4 THEN [raised |-> "none", v |-> EN_INTERMEDIATE]
        ELSE IF s <= 9 THEN [raised |-> "none", v |-> EN_NORMAL]   \* 2.25 in quarters
        ELSE [raised |-> "none", v |-> EN_ULTRARAPID]

\* for k, v in conv.items(): if pheno.startswith(k): pheno = v
conv ==
    << <<K_NORMAL, PH_NORMAL>>, <<K_INTERMEDIATE, PH_INTERMEDIO>>,
       <<K_POOR, PH_POBRE>>, <<K_ULTRARAPID, PH_ULTRA>> >>

RECURSIVE ApplyConv(_, _)
ApplyConv(pheno, items) ==
    IF items = <<>> THEN pheno
    ELSE ApplyConv(IF StartsWith(pheno, Head(items)[1]) THEN Head(items)[2] ELSE pheno,
                   Tail(items))

\* the condition of the CYP2D6 rec_row search on row i (routes.py:233-234)
CypRecRowMatches(pheno, i) ==
    /\ RECS[i].Gene = "CYP2D6"
    /\ IF Contains(pheno, <<" ">>)
       THEN Contains(RECS[i].Phenotype, SplitWS(pheno)[2])
       ELSE Contains(RECS[i].Phenotype, pheno)

\* pheno.split()[1] raises IndexError when pheno holds a space and one word only
CypRecRowRaises(pheno) ==
    /\ Contains(pheno, <<" ">>)
    /\ Len(SplitWS(pheno)) < 2
    /\ \E i \in 1..Len(RECS) : RECS[i].Gene = "CYP2D6"

\* the tail shared by cyp2d6_from_stars and cyp2d6_from_markers
\* (routes.py:222-237 and :259-274)
CypResult(dipl, notes) ==
    LET looked == _cyp_lookup_pheno(dipl)
        pheno  == ApplyConv(looked.v, conv)
        rows   == {i \in 1..Len(RECS) : CypRecRowMatches(pheno, i)}
    IN  IF looked.raised # "none" THEN Raised(looked.raised)
        ELSE IF CypRecRowRaises(pheno) THEN Raised("IndexError")
        ELSE Returned(dipl, pheno,
                      rtext_short("CYP2D6", pheno, Some(OrEmpty(RecTextOf(rows)))), notes)

cyp2d6_from_stars(a1, a2) ==
    CypResult(Slashed(a1, a2), <<NOTE_CYP_MANUAL \o Slashed(a1, a2)>>)

\* str(m["star"]).split()[0] raises IndexError when the field holds no token
RECURSIVE CypStarRaises(_)
CypStarRaises(ms) ==
    ms # <<>> /\ (SplitWS(Head(ms).star) = <<>> \/ CypStarRaises(Tail(ms)))

RECURSIVE CypHits(_, _)
CypHits(ms, values) ==
    IF ms = <<>> THEN <<>>
    ELSE LET m    == Head(ms)
             star == SplitWS(m.star)[1]
             hit  == IF star = <<>> \/ star = DASH THEN <<>>
                     ELSE MarkerEvents(m.ref, AltOf(m.var), star, GetGeno(values, m.column))
         IN  hit \o CypHits(Tail(ms), values)

cyp2d6_from_markers(values) ==
    LET hits == CypHits(MARKERS["CYP2D6"], values)
        dipl == IF hits = <<>> THEN DIPL_1_1
                ELSE IF Len(hits) = 1 THEN STAR1_SLASH \o hits[1]
                ELSE Slashed(hits[1], hits[2])
    IN  IF CypStarRaises(MARKERS["CYP2D6"]) THEN Raised("IndexError")
        ELSE CypResult(dipl, PolymNotes(MARKERS["CYP2D6"], values))

-----------------------------------------------------------------------------
(* The reference data and the inputs the model is checked on.  The JSON     *)
(* files under data/ are read at import (routes.py:35-42); their content is *)
(* drawn here from the tables below.                                        *)

MaxMarkers == 2     \* markers per gene in a drawn marker table
MaxRecs == 2        \* rows of a drawn recommendation table
MaxPhenoRows == 1   \* rows of a drawn CYP2D6 phenotype table
MaxPieces == 3      \* pieces a drawn long recommendation text is made of

\* STAR2A = "*2A"
STAR2A == <<"*","2","A">>
\* STAR13_NOTE = "*13 c.1679T>G"
STAR13_NOTE == <<"*","1","3"," ","c",".","1","6","7","9","T",">","G">>
\* STAR9A = "*9A"
STAR9A == <<"*","9","A">>
\* STAR10_NOTE = "*10 100C>T"
STAR10_NOTE == <<"*","1","0"," ","1","0","0","C",">","T">>
\* STAR4_5 = "*4/*5"
STAR4_5 == <<"*","4","/","*","5">>
\* ALLELE_C = "C"
ALLELE_C == <<"C">>
\* VAR_T = "T"
VAR_T == <<"T">>
\* VAR_T_A = "T/A"
VAR_T_A == <<"T","/","A">>
\* RSID = "rs1"
RSID == <<"r","s","1">>
\* RS887829 = "rs887829"
RS887829 == <<"r","s","8","8","7","8","2","9">>
\* COL_UGT = "UGT1A1*80"
COL_UGT == <<"U","G","T","1","A","1","*","8","0">>
\* TXT_PLAIN = "Ver guia"
TXT_PLAIN == <<"V","e","r"," ","g","u","i","a">>
\* TXT_CITED = "Ver [1] guia http://x"
TXT_CITED == <<"V","e","r"," ","[","1","]"," ","g","u","i","a"," ","h","t","t","p",":","/","/","x">>
\* TXT_ONLY_URL = "[1] https://x"
TXT_ONLY_URL == <<"[","1","]"," ","h","t","t","p","s",":","/","/","x">>
\* PHE_NORMAL_WORD = "normal"
PHE_NORMAL_WORD == <<"n","o","r","m","a","l">>
\* PHE_POBRE_WORD = "pobre"
PHE_POBRE_WORD == <<"p","o","b","r","e">>
\* EN_INDETERMINATE = "Indeterminate"
EN_INDETERMINATE == <<"I","n","d","e","t","e","r","m","i","n","a","t","e">>
\* PH_NORMAL_UPPER = "METABOLIZADOR NORMAL"
PH_NORMAL_UPPER ==
    <<"M","E","T","A","B","O","L","I","Z","A","D","O","R"," ","N","O","R","M","A","L">>
\* DIPL_1_4 = "*1/*4"
DIPL_1_4 == <<"*","1","/","*","4">>
\* DIPL_4_4 = "*4/*4"
DIPL_4_4 == <<"*","4","/","*","4">>

Digits == <<"1","2","3","4","5","6","7","8","9">>

\* the column of the i-th marker of a gene (columns are unique within a gene)
ColName(i) == <<"c", Digits[i]>>

MarkerRow(shape, i) ==
    [column |-> ColName(i), rsid |-> RSID,
     ref |-> shape.ref, var |-> shape.var, star |-> shape.star]

\* the marker tables of at most MaxMarkers rows over a set of row shapes
MarkerTables(shapes) ==
    UNION {{[i \in 1..n |-> MarkerRow(f[i], i)] : f \in [1..n -> shapes]} :
           n \in 0..MaxMarkers}

\* DPYD rows: a plain variant, a compound var field with a descriptive star
\* field, a var field of "-" and an empty var field
DpydShapes ==
    {[ref |-> ALLELE_C, var |-> VAR_T,   star |-> STAR2A],
     [ref |-> ALLELE_C, var |-> VAR_T_A, star |-> STAR13_NOTE],
     [ref |-> ALLELE_C, var |-> DASH,    star |-> STAR9A],
     [ref |-> ALLELE_C, var |-> <<>>,    star |-> STAR9A]}

\* CYP2D6 rows: a no-function allele, a reduced-function allele with a
\* descriptive suffix, and star fields "-" and ""
CypShapes ==
    {[ref |-> ALLELE_C, var |-> VAR_T, star |-> STAR4],
     [ref |-> ALLELE_C, var |-> VAR_T, star |-> STAR10_NOTE],
     [ref |-> ALLELE_C, var |-> VAR_T, star |-> DASH],
     [ref |-> ALLELE_C, var |-> VAR_T, star |-> <<>>]}

BaseDpyd == <<MarkerRow([ref |-> ALLELE_C, var |-> VAR_T, star |-> STAR2A], 1)>>
BaseCyp  == <<MarkerRow([ref |-> ALLELE_C, var |-> VAR_T, star |-> STAR4], 1)>>
BaseUgt  == <<[column |-> COL_UGT, rsid |-> RS887829,
               ref |-> ALLELE_C, var |-> VAR_T, star |-> STAR80]>>

MarkersOf(dpyd, cyp) == [DPYD |-> dpyd, CYP2D6 |-> cyp, UGT1A1 |-> BaseUgt]

\* rows of cyp2d6_pheno.json ("CYP2D6 Diplotype", "Coded Diplotype/Phenotype Summary")
PhenoRows ==
    {[Diplotype |-> DIPL_1_1, Summary |-> EN_ULTRARAPID],
     [Diplotype |-> DIPL_1_4, Summary |-> EN_NORMAL],
     [Diplotype |-> DIPL_4_4, Summary |-> EN_INDETERMINATE]}

PhenoTables == UNION {[1..n -> PhenoRows] : n \in 0..MaxPhenoRows}

\* rows of recs.json (Gene, Phenotype, RecText)
RecRows ==
    {[Gene |-> "UGT1A1", Phenotype |-> PH_INDETERMINADO, RecText |-> Some(TXT_CITED)],
     [Gene |-> "UGT1A1", Phenotype |-> PH_INDETERMINADO, RecText |-> Some(TXT_ONLY_URL)],
     [Gene |-> "UGT1A1", Phenotype |-> <<>>,             RecText |-> NoneVal],
     [Gene |-> "DPYD",   Phenotype |-> PHE_NORMAL_WORD,  RecText |-> Some(TXT_PLAIN)],
     [Gene |-> "CYP2D6", Phenotype |-> PHE_POBRE_WORD,   RecText |-> Some(TXT_PLAIN)],
     [Gene |-> "CYP2D6", Phenotype |-> EN_INDETERMINATE, RecText |-> Some(TXT_CITED)]}

RecTables == UNION {[1..n -> RecRows] : n \in 0..MaxRecs}

\* The data sets of the initial states.  A classifier reads its own gene's
\* markers, CYP_PHENO (CYP2D6 only) and RECS, so the tables are varied one
\* family at a time: the DPYD markers, the CYP2D6 markers with the phenotype
\* table, and the recommendation table.
DataSets ==
    {[m |-> MarkersOf(d, BaseCyp), p |-> <<>>, r |-> <<>>] : d \in MarkerTables(DpydShapes)}
    \cup {[m |-> MarkersOf(BaseDpyd, c), p |-> p, r |-> <<>>] :
              c \in MarkerTables(CypShapes), p \in PhenoTables}
    \cup {[m |-> MarkersOf(BaseDpyd, BaseCyp), p |-> p, r |-> r] :
              p \in {<<>>, <<[Diplotype |-> DIPL_4_4, Summary |-> EN_INDETERMINATE]>>},
              r \in RecTables}

\* genotype strings a form can submit for a marker column
Genotypes == {NO_CALL, GENO_CC, GENO_CT, GENO_TC, GENO_TT, SLASH}

\* the mappings of some of the columns of a marker table to genotypes
ValuesOf(ms) ==
    UNION {[cols -> Genotypes] : cols \in SUBSET {ms[i].column : i \in 1..Len(ms)}}

\* allele labels a form can submit in diplotype mode
Alleles == {STAR1, STAR4, STAR10, STAR28, STAR6, DASH, <<>>, STAR4_5}

\* inputs of direct calls of rtext_short
RecGenes == {"DPYD", "UGT1A1", "CYP2D6", "TPMT"}

RecPhenos == {PH_NORMAL, PH_NORMAL_UPPER, PH_LENTO, PH_POBRE, PH_INDETERMINADO, <<>>}

TextPieces == {<<"a">>, <<" ">>, <<"[">>, <<"]">>, HTTP, HTTPS}

RECURSIVE Concat(_)
Concat(ss) == IF ss = <<>> THEN <<>> ELSE Head(ss) \o Concat(Tail(ss))

LongTexts ==
    {NoneVal} \cup
    {Some(Concat(ps)) : ps \in UNION {[1..n -> TextPieces] : n \in 0..MaxPieces}}

-----------------------------------------------------------------------------
(* The classification core as a state machine: the tables are loaded, then  *)
(* the entry points are called, one call at a time, with inputs of a        *)
(* request; res holds the call in progress and what it returns.             *)

NoCall == [op |-> "none", args |-> <<>>, out |-> Raised("none")]

Called(op, args, out) == [op |-> op, args |-> args, out |-> out]

NoRequests == <<>>

Init ==
    /\ \E ds \in DataSets : MARKERS = ds.m /\ CYP_PHENO = ds.p /\ RECS = ds.r
    /\ PDF_ENABLED = FALSE
    /\ res = NoCall
    /\ clock = 0
    /\ req = NoRequests
    /\ files = <<>>

CallDpydFromMarkers ==
    /\ res = NoCall
    /\ \E values \in ValuesOf(MARKERS["DPYD"]) :
           res' = Called("dpyd_from_markers", <<values>>, dpyd_from_markers(values))
    /\ UNCHANGED <<dataVars, genVars>>

CallDpydFromDiplotype ==
    /\ res = NoCall
    /\ \E a1 \in Alleles, a2 \in Alleles :
           res' = Called("dpyd_from_diplotype", <<a1, a2>>, dpyd_from_diplotype(a1, a2))
    /\ UNCHANGED <<dataVars, genVars>>

CallUgt1a1FromMarkers ==
    /\ res = NoCall
    /\ \E geno \in Genotypes :
           res' = Called("ugt1a1_from_markers", <<geno>>, ugt1a1_from_markers(geno))
    /\ UNCHANGED <<dataVars, genVars>>

CallUgt1a1FromDiplotype ==
    /\ res = NoCall
    /\ \E a1 \in Alleles, a2 \in Alleles :
           res' = Called("ugt1a1_from_diplotype", <<a1, a2>>, ugt1a1_from_diplotype(a1, a2))
    /\ UNCHANGED <<dataVars, genVars>>

CallCyp2d6FromStars ==
    /\ res = NoCall
    /\ \E a1 \in Alleles, a2 \in Alleles :
           res' = Called("cyp2d6_from_stars", <<a1, a2>>, cyp2d6_from_stars(a1, a2))
    /\ UNCHANGED <<dataVars, genVars>>

CallCyp2d6FromMarkers ==
    /\ res = NoCall
    /\ \E values \in ValuesOf(MARKERS["CYP2D6"]) :
           res' = Called("cyp2d6_from_markers", <<values>>, cyp2d6_from_markers(values))
    /\ UNCHANGED <<dataVars, genVars>>

\* the call returns to its caller, which may call again
Return ==
    /\ res # NoCall
    /\ res' = NoCall
    /\ UNCHANGED <<dataVars, genVars>>

Next ==
    \/ CallDpydFromMarkers
    \/ CallDpydFromDiplotype
    \/ CallUgt1a1FromMarkers
    \/ CallUgt1a1FromDiplotype
    \/ CallCyp2d6FromStars
    \/ CallCyp2d6FromMarkers
    \/ Return

Spec == Init /\ [][Next]_vars

-----------------------------------------------------------------------------
(* rtext_short called on its own *)

InitRec ==
    /\ MARKERS = MarkersOf(BaseDpyd, BaseCyp) /\ CYP_PHENO = <<>> /\ RECS = <<>>
    /\ PDF_ENABLED = FALSE
    /\ res = NoCall
    /\ clock = 0
    /\ req = NoRequests
    /\ files = <<>>

CallRtextShort ==
    /\ res = NoCall
    /\ \E gene \in RecGenes, pheno \in RecPhenos, long_text \in LongTexts :
           res' = Called("rtext_short", <<gene, pheno, long_text>>,
                         rtext_short(gene, pheno, long_text))
    /\ UNCHANGED <<dataVars, genVars>>

NextRec == CallRtextShort \/ Return

SpecRec == InitRec /\ [][NextRec]_vars

-----------------------------------------------------------------------------
(* The export handler generate (routes.py:514-632) *)

\* MODE_DIPLOTYPE = "diplotype"
MODE_DIPLOTYPE == <<"d","i","p","l","o","t","y","p","e">>
\* MODE_MARKERS = "markers"
MODE_MARKERS == <<"m","a","r","k","e","r","s">>
\* DRUG_DPYD = "Fluorouracilo, capecitabina, tegafur"
DRUG_DPYD ==
    <<"F","l","u","o","r","o","u","r","a","c","i","l","o",","," ","c","a","p","e","c","i","t",
      "a","b","i","n","a",","," ","t","e","g","a","f","u","r">>
\* DRUG_CYP = "Tamoxifeno"
DRUG_CYP == <<"T","a","m","o","x","i","f","e","n","o">>
\* DRUG_UGT = "Irinotec<a_ac>n"
DRUG_UGT == <<"I","r","i","n","o","t","e","c","a_ac","n">>
\* JOIN_SEP = "; "
JOIN_SEP == <<";"," ">>

\* request.form.get(name, default); the genotype fields are keyed by the
\* marker column, the other fields by their name
FormGet(form, name, default) ==
    IF name \in DOMAIN form.fields THEN form.fields[name] ELSE default

FormGeno(form, col) ==
    IF col \in DOMAIN form.genos THEN form.genos[col] ELSE NO_CALL

\* {k: request.form.get(k, "-/-") for k in <the columns of the gene's markers>}
MarkerValues(form, gene) ==
    [col \in {MARKERS[gene][i].column : i \in 1..Len(MARKERS[gene])} |-> FormGeno(form, col)]

\* routes.py:538-546
GenDpyd(form) ==
    IF FormGet(form, "dpyd_mode", MODE_MARKERS) = MODE_DIPLOTYPE
    THEN dpyd_from_diplotype(FormGet(form, "dpyd_a1", STAR1), FormGet(form, "dpyd_a2", STAR1))
    ELSE dpyd_from_markers(MarkerValues(form, "DPYD"))

\* routes.py:549-558; next(iter(ugt_inputs.keys())) raises StopIteration when
\* the gene has no marker
GenUgt(form) ==
    IF FormGet(form, "ugt_mode", MODE_MARKERS) = MODE_DIPLOTYPE
    THEN ugt1a1_from_diplotype(FormGet(form, "ugt_a1", STAR1), FormGet(form, "ugt_a2", STAR1))
    ELSE IF MARKERS["UGT1A1"] = <<>> THEN Raised("StopIteration")
    ELSE ugt1a1_from_markers(FormGeno(form, MARKERS["UGT1A1"][1].column))

\* routes.py:561-569
GenCyp(form) ==
    IF FormGet(form, "cyp_mode", MODE_DIPLOTYPE) = MODE_MARKERS
    THEN cyp2d6_from_markers(MarkerValues(form, "CYP2D6"))
    ELSE cyp2d6_from_stars(FormGet(form, "cyp_a1", STAR1), FormGet(form, "cyp_a2", STAR1))

\* the exception that ends the handler before the summary is built, or "none"
GenRaises(form) ==
    IF GenDpyd(form).raised # "none" THEN GenDpyd(form).raised
    ELSE IF GenUgt(form).raised # "none" THEN GenUgt(form).raised
    ELSE GenCyp(form).raised

SummaryRow(gen, out, drug) ==
    [gen |-> gen, diplotipo |-> out.dipl, fenotipo |-> out.pheno, drug |-> drug,
     rec |-> out.rec]

\* the summary with the rows of UGT1A1 and CYP2D6 in the order of classification
GenSummaryClassified(form) ==
    << SummaryRow("DPYD",   GenDpyd(form), DRUG_DPYD),
       SummaryRow("UGT1A1", GenUgt(form),  DRUG_UGT),
       SummaryRow("CYP2D6", GenCyp(form),  DRUG_CYP) >>

\* routes.py:572-576
GenSummary(form) ==
    << SummaryRow("DPYD",   GenDpyd(form), DRUG_DPYD),
       SummaryRow("CYP2D6", GenCyp(form),  DRUG_CYP),
       SummaryRow("UGT1A1", GenUgt(form),  DRUG_UGT) >>

\* "; ".join(notes)
RECURSIVE JoinNotes(_)
JoinNotes(notes) ==
    IF notes = <<>> THEN <<>>
    ELSE IF Len(notes) = 1 THEN notes[1]
    ELSE notes[1] \o JOIN_SEP \o JoinNotes(Tail(notes))

\* (nombre + " " + apellidos).strip()
FullName(form) ==
    Strip(FormGet(form, "nombre", <<>>) \o <<" ">> \o FormGet(form, "apellidos", <<>>))

\* the document tpl.render(context) makes of a form at time now (seconds):
\* patient, results table, polymorphisms and the minute of generation
Render(form, now) ==
    [full_name     |-> FullName(form),
     summary       |-> GenSummary(form),
     polymorphisms |-> JoinNotes(GenDpyd(form).notes \o GenCyp(form).notes
                                 \o GenUgt(form).notes),
     generated_at  |-> now \div 60,
     fitted        |-> FALSE,
     pdf           |-> FALSE]

\* fit_results_table(doc): the same document with its results table fitted
Fit(doc) == [doc EXCEPT !.fitted = TRUE]

\* docx2pdf.convert: the same document as PDF
ToPdf(doc) == [doc EXCEPT !.pdf = TRUE]

\* os.path.join(tempfile.gettempdir(), f"GenoPilot_tmp_{now.strftime('%H%M%S')}.docx")
TmpDocx(now) ==
    [dir |-> "tmp", who |-> <<>>,
     stamp |-> ((now \div 3600) % 24) * 10000 + ((now \div 60) % 60) * 100 + (now % 60)]

\* REPORTS_DIR/GenoPilot_{full_name}_{now:%Y%m%d_%H%M}.pdf
PdfPath(form, now) == [dir |-> "reports", who |-> FullName(form), stamp |-> now \div 60]

-----------------------------------------------------------------------------
(* Concurrent generate requests.  Each request runs the handler once; the   *)
(* steps of different requests interleave at the file operations and at the *)
(* reading of the clock.                                                    *)

NumRequests == 2    \* concurrent POST /generate requests
MaxClock == 1       \* seconds the clock advances while they run

\* NAME_A = "Ana"
NAME_A == <<"A","n","a">>
\* NAME_B = "Blas"
NAME_B == <<"B","l","a","s">>
\* NAME_C = "Cora"
NAME_C == <<"C","o","r","a">>

\* the forms submitted: marker mode by default, diplotype mode, and a form
\* whose CYP2D6 allele field holds a diplotype
Forms ==
    {[fields |-> ("nombre" :> NAME_A), genos |-> (COL_UGT :> GENO_TT)],
     [fields |-> ("nombre" :> NAME_B) @@ ("dpyd_mode" :> MODE_DIPLOTYPE)
                 @@ ("dpyd_a1" :> STAR2A) @@ ("cyp_a1" :> STAR4) @@ ("cyp_a2" :> STAR4),
      genos  |-> (COL_UGT :> GENO_CT)],
     [fields |-> ("nombre" :> NAME_C) @@ ("cyp_a1" :> STAR4_5), genos |-> <<>>]}

NoForm == [fields |-> <<>>, genos |-> <<>>]

NoDoc ==
    [full_name |-> <<>>, summary |-> <<>>, polymorphisms |-> <<>>, generated_at |-> 0,
     fitted |-> FALSE, pdf |-> FALSE]

Idle == [pc |-> "idle", form |-> NoForm, now |-> 0, rendered |-> NoDoc, doc |-> NoDoc,
         sent |-> NoDoc]

Requests == 1..NumRequests

\* open(path).read(): what is stored at path
FileAt(path) == IF path \in DOMAIN files THEN files[path] ELSE NoDoc

\* the file system after a write of doc to path
Written(path, doc) ==
    [p \in DOMAIN files \cup {path} |-> IF p = path THEN doc ELSE files[p]]

InitGen ==
    /\ MARKERS = MarkersOf(BaseDpyd, BaseCyp) /\ CYP_PHENO = <<>> /\ RECS = <<>>
    /\ PDF_ENABLED \in BOOLEAN
    /\ res = NoCall
    /\ clock = 0
    /\ req = [r \in Requests |-> Idle]
    /\ files = <<>>

\* routes.py:523-602: the form is read and classified, now is taken and the
\* template is rendered; an exception of a classifier ends the request
GenRender(r) ==
    /\ req[r].pc = "idle"
    /\ \E form \in Forms :
           req' = [req EXCEPT ![r] =
                       IF GenRaises(form) # "none"
                       THEN [@ EXCEPT !.pc = "error", !.form = form]
                       ELSE [@ EXCEPT !.pc = "rendered", !.form = form, !.now = clock,
                                      !.rendered = Render(form, clock)]]
    /\ UNCHANGED <<dataVars, res, clock, files>>

\* routes.py:603  tpl.save(tmp_docx)
GenSave(r) ==
    /\ req[r].pc = "rendered"
    /\ files' = Written(TmpDocx(req[r].now), req[r].rendered)
    /\ req' = [req EXCEPT ![r].pc = "saved"]
    /\ UNCHANGED <<dataVars, res, clock>>

\* routes.py:607-608  doc = Document(tmp_docx); fit_results_table(doc)
GenReopen(r) ==
    /\ req[r].pc = "saved"
    /\ req' = [req EXCEPT ![r].pc = "reopened",
                          ![r].doc = Fit(FileAt(TmpDocx(req[r].now)))]
    /\ UNCHANGED <<dataVars, res, clock, files>>

\* routes.py:609  doc.save(tmp_docx)
GenRefitSave(r) ==
    /\ req[r].pc = "reopened"
    /\ files' = Written(TmpDocx(req[r].now), req[r].doc)
    /\ req' = [req EXCEPT ![r].pc = "refitted"]
    /\ UNCHANGED <<dataVars, res, clock>>

\* routes.py:610-612  python-docx fails on a file another request is writing:
\* the handler goes on with the file as it is
GenRefitFails(r) ==
    /\ req[r].pc = "saved"
    /\ \E o \in Requests \ {r} :
           /\ req[o].pc \in {"rendered", "reopened"}
           /\ TmpDocx(req[o].now) = TmpDocx(req[r].now)
    /\ req' = [req EXCEPT ![r].pc = "refitted"]
    /\ UNCHANGED <<dataVars, res, clock, files>>

\* routes.py:618-621  convert(tmp_docx, pdf_path)
GenConvert(r) ==
    /\ PDF_ENABLED
    /\ req[r].pc = "refitted"
    /\ files' = Written(PdfPath(req[r].form, req[r].now),
                        ToPdf(FileAt(TmpDocx(req[r].now))))
    /\ req' = [req EXCEPT ![r].pc = "converted"]
    /\ UNCHANGED <<dataVars, res, clock>>

\* routes.py:623-624  the conversion fails: fall back to the DOCX
GenConvertFails(r) ==
    /\ PDF_ENABLED
    /\ req[r].pc = "refitted"
    /\ req' = [req EXCEPT ![r].pc = "fallback"]
    /\ UNCHANGED <<dataVars, res, clock, files>>

\* routes.py:622  send_file(pdf_path, ...)
GenSendPdf(r) ==
    /\ req[r].pc = "converted"
    /\ req' = [req EXCEPT ![r].pc = "done",
                          ![r].sent = FileAt(PdfPath(req[r].form, req[r].now))]
    /\ UNCHANGED <<dataVars, res, clock, files>>

\* routes.py:627-632  send_file(tmp_docx, ...)
GenSendDocx(r) ==
    /\ \/ ~PDF_ENABLED /\ req[r].pc = "refitted"
       \/ req[r].pc = "fallback"
    /\ req' = [req EXCEPT ![r].pc = "done", ![r].sent = FileAt(TmpDocx(req[r].now))]
    /\ UNCHANGED <<dataVars, res, clock, files>>

\* a second passes
Tick ==
    /\ clock < MaxClock
    /\ clock' = clock + 1
    /\ UNCHANGED <<dataVars, res, req, files>>

NextGen ==
    \/ \E r \in Requests :
           \/ GenRender(r)
           \/ GenSave(r)
           \/ GenReopen(r)
           \/ GenRefitSave(r)
           \/ GenRefitFails(r)
           \/ GenConvert(r)
           \/ GenConvertFails(r)
           \/ GenSendPdf(r)
           \/ GenSendDocx(r)
    \/ Tick

SpecGen == InitGen /\ [][NextGen]_vars

-----------------------------------------------------------------------------
(* The star labels of a gene for the diplotype selectors: _collect_stars    *)
(* (routes.py:47-62), called at import for DPYD and UGT1A1 (routes.py:64-65)*)

\* HAPB3 = "HapB3"
HAPB3 == <<"H","a","p","B","3">>
\* STAR13 = "*13"
STAR13 == <<"*","1","3">>
\* STAR2A_PADDED = " *2A "
STAR2A_PADDED == <<" ","*","2","A"," ">>

\* x.replace("*", "0"): every "*" of x, not the leading one only
ReplaceStar(x) == [i \in 1..Len(x) |-> IF x[i] = "*" THEN "0" ELSE x[i]]

\* (x.replace("*", "0"), x) < (y.replace("*", "0"), y), as Python compares tuples
StarKeyLess(x, y) ==
    \/ StrLess(ReplaceStar(x), ReplaceStar(y))
    \/ ReplaceStar(x) = ReplaceStar(y) /\ StrLess(x, y)

\* sorted(stars, key=lambda x: (x.replace("*", "0"), x))
RECURSIVE SortedStars(_)
SortedStars(stars) ==
    IF stars = {} THEN <<>>
    ELSE LET first == CHOOSE x \in stars : \A y \in stars \ {x} : StarKeyLess(x, y)
         IN  <<first>> \o SortedStars(stars \ {first})

\* the labels the loop over the marker rows adds: the first token of every
\* star field that is neither blank nor "-"
RECURSIVE MarkerStars(_)
MarkerStars(ms) ==
    IF ms = <<>> THEN {}
    ELSE LET s == Strip(Head(ms).star)
         IN  (IF s = <<>> \/ s = DASH THEN {} ELSE {SplitWS(s)[1]})
             \cup MarkerStars(Tail(ms))

\* MARKERS.get(gene, [])
MarkersGet(gene) == IF gene \in DOMAIN MARKERS THEN MARKERS[gene] ELSE <<>>

\* the set of labels before the default "*1" is put in
_collect_stars_no_default(gene, extra) ==
    SortedStars(MarkerStars(MarkersGet(gene)) \cup {extra[i] : i \in 1..Len(extra)})

\* extra is a list of labels; None and [] are both the empty sequence, which
\* the test "if extra" treats alike
_collect_stars(gene, extra) ==
    SortedStars({STAR1} \cup MarkerStars(MarkersGet(gene))
                \cup {extra[i] : i \in 1..Len(extra)})

\* rows of a marker table by their star field: plain labels, a label with a
\* descriptive suffix, a padded label, a haplotype name, "-" and ""
StarShapes ==
    {[ref |-> ALLELE_C, var |-> VAR_T, star |-> STAR2A],
     [ref |-> ALLELE_C, var |-> VAR_T, star |-> STAR13_NOTE],
     [ref |-> ALLELE_C, var |-> VAR_T, star |-> STAR2A_PADDED],
     [ref |-> ALLELE_C, var |-> VAR_T, star |-> HAPB3],
     [ref |-> ALLELE_C, var |-> VAR_T, star |-> DASH],
     [ref |-> ALLELE_C, var |-> VAR_T, star |-> <<>>]}

\* the genes a caller asks for; TPMT has no entry in MARKERS
StarGenes == {"DPYD", "UGT1A1", "CYP2D6", "TPMT"}

\* the extra lists a caller passes: none, the one of routes.py:65, a
\* haplotype name, and a list that repeats labels
Extras == {<<>>, <<STAR28>>, <<HAPB3>>, <<STAR13, STAR1, STAR13>>}

InitStars ==
    /\ \E d \in MarkerTables(StarShapes) : MARKERS = MarkersOf(d, BaseCyp)
    /\ CYP_PHENO = <<>> /\ RECS = <<>>
    /\ PDF_ENABLED = FALSE
    /\ res = NoCall
    /\ clock = 0
    /\ req = NoRequests
    /\ files = <<>>

CallCollectStars ==
    /\ res = NoCall
    /\ \E gene \in StarGenes, extra \in Extras :
           res' = Called("_collect_stars", <<gene, extra>>,
                         [ret |-> _collect_stars(gene, extra), raised |-> "none"])
    /\ UNCHANGED <<dataVars, genVars>>

NextStars == CallCollectStars \/ Return

SpecStars == InitStars /\ [][NextStars]_vars

-----------------------------------------------------------------------------
(* The preview handler index, POST (routes.py:417-512), and a session that  *)
(* previews a form and then exports the same form with generate.            *)

\* routes.py:440-449
IdxDpyd(form) ==
    IF FormGet(form, "dpyd_mode", MODE_MARKERS) = MODE_DIPLOTYPE
    THEN dpyd_from_diplotype(FormGet(form, "dpyd_a1", STAR1), FormGet(form, "dpyd_a2", STAR1))
    ELSE dpyd_from_markers(MarkerValues(form, "DPYD"))

\* routes.py:452-462
IdxUgt(form) ==
    IF FormGet(form, "ugt_mode", MODE_MARKERS) = MODE_DIPLOTYPE
    THEN ugt1a1_from_diplotype(FormGet(form, "ugt_a1", STAR1), FormGet(form, "ugt_a2", STAR1))
    ELSE IF MARKERS["UGT1A1"] = <<>> THEN Raised("StopIteration")
    ELSE ugt1a1_from_markers(FormGeno(form, MARKERS["UGT1A1"][1].column))

\* CYP2D6 read in marker mode unless the form says otherwise
IdxCypDefaultMarkers(form) ==
    IF FormGet(form, "cyp_mode", MODE_MARKERS) = MODE_MARKERS
    THEN cyp2d6_from_markers(MarkerValues(form, "CYP2D6"))
    ELSE cyp2d6_from_stars(FormGet(form, "cyp_a1", STAR1), FormGet(form, "cyp_a2", STAR1))

\* routes.py:465-475
IdxCyp(form) ==
    IF FormGet(form, "cyp_mode", MODE_DIPLOTYPE) = MODE_MARKERS
    THEN cyp2d6_from_markers(MarkerValues(form, "CYP2D6"))
    ELSE cyp2d6_from_stars(FormGet(form, "cyp_a1", STAR1), FormGet(form, "cyp_a2", STAR1))

\* the exception that ends the handler before the preview is built, or
\* "none"; the genes are classified in the order DPYD, UGT1A1, CYP2D6
IdxRaises(form) ==
    IF IdxDpyd(form).raised # "none" THEN IdxDpyd(form).raised
    ELSE IF IdxUgt(form).raised # "none" THEN IdxUgt(form).raised
    ELSE IdxCyp(form).raised

\* dpyd_mode, ugt_mode, cyp_mode as index reads them (routes.py:441, 453, 465)
IdxModes(form) ==
    [dpyd |-> FormGet(form, "dpyd_mode", MODE_MARKERS),
     ugt  |-> FormGet(form, "ugt_mode", MODE_MARKERS),
     cyp  |-> FormGet(form, "cyp_mode", MODE_DIPLOTYPE)]

\* dpyd_mode, ugt_mode, cyp_mode as generate reads them (routes.py:539, 550, 562)
GenModes(form) ==
    [dpyd |-> FormGet(form, "dpyd_mode", MODE_MARKERS),
     ugt  |-> FormGet(form, "ugt_mode", MODE_MARKERS),
     cyp  |-> FormGet(form, "cyp_mode", MODE_DIPLOTYPE)]

PreviewRow(gen, out, drug) ==
    [gen |-> gen, dipl |-> out.dipl, pheno |-> out.pheno, drug |-> drug, rec |-> out.rec]

\* routes.py:477-481
IdxPreview(form) ==
    << PreviewRow("DPYD",   IdxDpyd(form), DRUG_DPYD),
       PreviewRow("CYP2D6", IdxCyp(form),  DRUG_CYP),
       PreviewRow("UGT1A1", IdxUgt(form),  DRUG_UGT) >>

\* a form field that is absent (NoneVal) or holds a value
Field(name, v) == IF v = NoneVal THEN <<>> ELSE (name :> v[1])

\* the forms a page submits: each mode field absent, "diplotype" or
\* "markers"; first alleles absent or chosen; genotypes absent or called
FormSpace ==
    {[fields |-> Field("dpyd_mode", dm) @@ Field("ugt_mode", um) @@ Field("cyp_mode", cm)
                 @@ Field("dpyd_a1", da) @@ Field("ugt_a1", ua) @@ Field("cyp_a1", ca),
      genos  |-> Field(ColName(1), g1) @@ Field(COL_UGT, gu)] :
        dm \in {NoneVal, Some(MODE_DIPLOTYPE), Some(MODE_MARKERS)},
        um \in {NoneVal, Some(MODE_DIPLOTYPE), Some(MODE_MARKERS)},
        cm \in {NoneVal, Some(MODE_DIPLOTYPE), Some(MODE_MARKERS)},
        da \in {NoneVal, Some(STAR2A)},
        ua \in {NoneVal, Some(STAR28)},
        ca \in {NoneVal, Some(STAR4), Some(STAR4_5)},
        g1 \in {NoneVal, Some(GENO_CT)},
        gu \in {NoneVal, Some(GENO_TT)}}

\* the reference data of a session: the base tables, with and without a
\* UGT1A1 marker, an assigned CYP2D6 diplotype and recommendation rows
FormData ==
    {[m |-> MarkersOf(BaseDpyd, BaseCyp), p |-> <<>>, r |-> <<>>],
     [m |-> MarkersOf(BaseDpyd, BaseCyp),
      p |-> <<[Diplotype |-> DIPL_1_1, Summary |-> EN_ULTRARAPID]>>,
      r |-> <<[Gene |-> "CYP2D6", Phenotype |-> PHE_POBRE_WORD, RecText |-> Some(TXT_PLAIN)],
              [Gene |-> "DPYD", Phenotype |-> PHE_NORMAL_WORD, RecText |-> Some(TXT_CITED)]>>],
     [m |-> [DPYD |-> BaseDpyd, CYP2D6 |-> BaseCyp, UGT1A1 |-> <<>>], p |-> <<>>, r |-> <<>>]}

InitForm ==
    /\ \E ds \in FormData : MARKERS = ds.m /\ CYP_PHENO = ds.p /\ RECS = ds.r
    /\ PDF_ENABLED = FALSE
    /\ res = NoCall
    /\ clock = 0
    /\ req = NoRequests
    /\ files = <<>>

\* POST / : the preview of a form
PostIndex ==
    /\ res = NoCall
    /\ \E form \in FormSpace :
           res' = Called("index", <<form>>,
                         [modes   |-> IdxModes(form),
                          preview |-> IF IdxRaises(form) = "none" THEN IdxPreview(form)
                                      ELSE <<>>,
                          raised  |-> IdxRaises(form)])
    /\ UNCHANGED <<dataVars, genVars>>

\* POST /generate with the fields of the form just previewed
PostGenerate ==
    /\ res.op = "index"
    /\ LET form == res.args[1]
       IN  res' = Called("generate", <<form>>,
                         [previewed |-> res.out,
                          modes     |-> GenModes(form),
                          summary   |-> IF GenRaises(form) = "none" THEN GenSummary(form)
                                        ELSE <<>>,
                          raised    |-> GenRaises(form)])
    /\ UNCHANGED <<dataVars, genVars>>

NextForm == PostIndex \/ PostGenerate \/ Return

SpecForm == InitForm /\ [][NextForm]_vars

-----------------------------------------------------------------------------
(* Claims *)

\* the number of occurrences claim C1 gives marker m for genotype geno
C1_Count(m, geno) ==
    LET alt == FirstAltToken(m.var) IN
    IF alt = <<>> \/ alt = DASH THEN 0
    ELSE IF geno = m.ref \o <<"/">> \o alt \/ geno = alt \o <<"/">> \o m.ref THEN 1
    ELSE IF geno = alt \o <<"/">> \o alt THEN 2
    ELSE 0

\* the stars of the markers ms, each as often as it occurs, in table order
RECURSIVE C1_Occurrences(_, _)
C1_Occurrences(ms, values) ==
    IF ms = <<>> THEN <<>>
    ELSE LET m == Head(ms)
             n == C1_Count(m, IF m.column \in DOMAIN values THEN values[m.column]
                              ELSE NO_CALL)
         IN  [i \in 1..n |-> m.star] \o C1_Occurrences(Tail(ms), values)

\* C1: dpyd_from_markers counts one occurrence of a marker's star for ref/alt
\* or alt/ref and two for alt/alt, none when alt is empty or "-" or for any
\* other genotype; no occurrence gives "*1/*1" and "Metabolizador normal",
\* one gives "*1/<star>" and "Metabolizador intermedio", two or more give
\* "<first>/<second>" and "Metabolizador lento".
C1_DpydFromMarkers ==
    res.op = "dpyd_from_markers" =>
        LET occ == C1_Occurrences(MARKERS["DPYD"], res.args[1]) IN
        /\ res.out.raised = "none"
        /\ Len(occ) = 0 => res.out.dipl = DIPL_1_1 /\ res.out.pheno = PH_NORMAL
        /\ Len(occ) = 1 => /\ res.out.dipl = STAR1 \o <<"/">> \o occ[1]
                           /\ res.out.pheno = PH_INTERMEDIO
        /\ Len(occ) >= 2 => /\ res.out.dipl = occ[1] \o <<"/">> \o occ[2]
                            /\ res.out.pheno = PH_LENTO

\* a single homozygous marker, beside a marker whose var is "-" and whose
\* column is missing, classified "Metabolizador lento"
C1_Witness ==
    /\ res.op = "dpyd_from_markers"
    /\ Len(MARKERS["DPYD"]) = 2
    /\ MARKERS["DPYD"][1].var = VAR_T
    /\ MARKERS["DPYD"][2].var = DASH
    /\ DOMAIN res.args[1] = {MARKERS["DPYD"][1].column}
    /\ res.args[1][MARKERS["DPYD"][1].column] = GENO_TT
    /\ res.out.dipl = Slashed(STAR2A, STAR2A)
    /\ res.out.pheno = PH_LENTO


\* the phenotype the diplotype-mode classifier of a gene returns for the
\* diplotype string dipl split at "/", or <<>> when dipl does not split into
\* two alleles or the classifier raises
C2_Back(gene, dipl) ==
    LET parts == SplitOn(dipl, "/")
        out   == IF gene = "DPYD" THEN dpyd_from_diplotype(parts[1], parts[2])
                 ELSE IF gene = "UGT1A1" THEN ugt1a1_from_diplotype(parts[1], parts[2])
                 ELSE cyp2d6_from_stars(parts[1], parts[2])
    IN  IF Len(parts) = 2 /\ out.raised = "none" THEN out.pheno ELSE <<>>

C2_MarkerGene ==
    IF res.op = "dpyd_from_markers" THEN "DPYD"
    ELSE IF res.op = "ugt1a1_from_markers" THEN "UGT1A1"
    ELSE "CYP2D6"

C2_MarkerModeReturned ==
    /\ res.op \in {"dpyd_from_markers", "ugt1a1_from_markers", "cyp2d6_from_markers"}
    /\ res.out.raised = "none"

\* C2 as stated: for each gene and every marker-mode input, the diplotype
\* marker mode returns, split at "/" and passed to the gene's diplotype-mode
\* classifier, gives the phenotype marker mode returned.
C2_RoundTripEveryGene ==
    C2_MarkerModeReturned => C2_Back(C2_MarkerGene, res.out.dipl) = res.out.pheno

\* C2 amended: the round trip holds for DPYD and CYP2D6, and for UGT1A1 when
\* the genotype is C/C, C/T, T/C or T/T; for any other UGT1A1 genotype marker
\* mode returns "-/-" and "Indeterminado", and diplotype mode classifies
\* ("-", "-") as "Metabolizador normal".
C2_RoundTrip ==
    C2_MarkerModeReturned =>
        IF res.op = "ugt1a1_from_markers"
              /\ res.args[1] \notin {GENO_CC, GENO_CT, GENO_TC, GENO_TT}
        THEN /\ res.out.dipl = NO_CALL
             /\ res.out.pheno = PH_INDETERMINADO
             /\ C2_Back("UGT1A1", res.out.dipl) = PH_NORMAL
        ELSE C2_Back(C2_MarkerGene, res.out.dipl) = res.out.pheno

\* DPYD marker mode returned "*1/<star>" for one heterozygous marker with a
\* descriptive star field, and diplotype mode agrees on "Metabolizador intermedio"
C2_Witness ==
    /\ res.op = "dpyd_from_markers"
    /\ res.out.dipl = STAR1_SLASH \o STAR13_NOTE
    /\ res.out.pheno = PH_INTERMEDIO
    /\ C2_Back("DPYD", res.out.dipl) = PH_INTERMEDIO


C3_ClassifierCalled ==
    res.op \in {"dpyd_from_markers", "dpyd_from_diplotype", "ugt1a1_from_markers",
                "ugt1a1_from_diplotype", "cyp2d6_from_markers", "cyp2d6_from_stars"}

\* C3: each of the six classifier entry points returns a (diplotype,
\* phenotype, recommendation, notes) result for every input and never raises;
\* a CYP2D6 result is one of the four metabolizer labels when the diplotype
\* has no row in the reference table.
C3_NeverRaises ==
    C3_ClassifierCalled =>
        /\ res.out.raised = "none"
        /\ (res.op \in {"cyp2d6_from_markers", "cyp2d6_from_stars"}
              /\ \A i \in 1..Len(CYP_PHENO) : CYP_PHENO[i].Diplotype # res.out.dipl)
           => res.out.pheno \in {PH_NORMAL, PH_INTERMEDIO, PH_POBRE, PH_ULTRA}

\* the activity score of claim C4, in halves
C4_Score2(a) ==
    IF a \in {STAR3, STAR4, STAR5, STAR6, STAR7, STAR14, STAR15, STAR19, STAR59} THEN 0
    ELSE IF a \in {STAR10, STAR17, STAR29, STAR41, STAR56B} THEN 1
    ELSE 2

\* 0 -> Poor, (0, 1.0] -> Intermediate, (1.0, 2.25] -> Normal, above -> Ultrarapid,
\* as displayed
C4_Display(sum2) ==
    IF sum2 = 0 THEN PH_POBRE
    ELSE IF sum2 <= 2 THEN PH_INTERMEDIO
    ELSE IF 2 * sum2 <= 9 THEN PH_NORMAL
    ELSE PH_ULTRA

\* C4: a CYP2D6 diplotype "a1/a2" with no exact row in the table is classified
\* by the sum of the activity scores of a1 and a2 and displayed through the
\* Spanish translation.
C4_ActivityScoreFallback ==
    (/\ res.op \in {"cyp2d6_from_stars", "cyp2d6_from_markers"}
     /\ res.out.raised = "none"
     /\ \A i \in 1..Len(CYP_PHENO) : CYP_PHENO[i].Diplotype # res.out.dipl)
    => LET parts == SplitOn(res.out.dipl, "/") IN
       /\ Len(parts) = 2
       /\ res.out.pheno = C4_Display(C4_Score2(parts[1]) + C4_Score2(parts[2]))

\* "*4/*4" submitted in diplotype mode with no row for it: "Metabolizador pobre"
C4_Witness ==
    /\ res.op = "cyp2d6_from_stars"
    /\ res.args = <<STAR4, STAR4>>
    /\ CYP_PHENO = <<>>
    /\ res.out.pheno = PH_POBRE

\* the hits claim C5 expects: the markers with a star token, by their genotype
RECURSIVE C5_Hits(_, _)
C5_Hits(ms, values) ==
    IF ms = <<>> THEN <<>>
    ELSE LET m    == Head(ms)
             toks == SplitWS(m.star)
             geno == IF m.column \in DOMAIN values THEN values[m.column] ELSE NO_CALL
             n    == IF toks = <<>> \/ toks[1] = DASH THEN 0 ELSE C1_Count(m, geno)
         IN  [i \in 1..n |-> toks[1]] \o C5_Hits(Tail(ms), values)

C5_HasUnlabelledMarker ==
    \E i \in 1..Len(MARKERS["CYP2D6"]) :
        LET toks == SplitWS(MARKERS["CYP2D6"][i].star) IN toks = <<>> \/ toks[1] = DASH

\* C5: with a marker whose star token is empty or "-" in the table,
\* cyp2d6_from_markers completes, that marker contributes no hit, and the
\* diplotype is built from the remaining markers.
C5_SkipsUnlabelledMarkers ==
    (res.op = "cyp2d6_from_markers" /\ C5_HasUnlabelledMarker) =>
        LET hits == C5_Hits(MARKERS["CYP2D6"], res.args[1]) IN
        /\ res.out.raised = "none"
        /\ res.out.dipl = IF hits = <<>> THEN DIPL_1_1
                          ELSE IF Len(hits) = 1 THEN STAR1 \o <<"/">> \o hits[1]
                          ELSE hits[1] \o <<"/">> \o hits[2]

C6_INDETERMINATE == <<"I","n","d","e","t","e","r","m","i","n","a","t","e">>

C6_Unrecognised ==
    /\ res.op = "ugt1a1_from_markers"
    /\ res.args[1] \notin {GENO_CC, GENO_CT, GENO_TC, GENO_TT}

\* C6 as stated: any other genotype gives "-/-" and "Indeterminate", and the
\* generic safe-fallback sentence whatever the recommendation table holds.
C6_IndeterminateAlwaysGeneric ==
    C6_Unrecognised =>
        /\ res.out.dipl = NO_CALL
        /\ res.out.pheno = C6_INDETERMINATE
        /\ res.out.rec = SAFE_FALLBACK

\* the first UGT1A1 row whose lower-cased Phenotype occurs in "indeterminado"
C6_Rows ==
    {i \in 1..Len(RECS) :
         /\ RECS[i].Gene = "UGT1A1"
         /\ \E a \in 0..Len(PH_INDETERMINADO), b \in 0..Len(PH_INDETERMINADO) :
                SubSeq(Lower(PH_INDETERMINADO), a + 1, b) = Lower(RECS[i].Phenotype)}

C6_RowText ==
    IF C6_Rows = {} THEN <<>>
    ELSE LET r == RECS[CHOOSE i \in C6_Rows : \A j \in C6_Rows : i <= j]
         IN  IF r.RecText = NoneVal THEN <<>> ELSE CleanLongText(r.RecText)

\* C6 amended: any other genotype gives "-/-" and "Indeterminado"; the
\* recommendation is the cleaned RecText of the first UGT1A1 row whose
\* lower-cased Phenotype occurs in "indeterminado" when that text is not
\* empty, and the generic safe-fallback sentence otherwise.
C6_Indeterminado ==
    C6_Unrecognised =>
        /\ res.out.dipl = NO_CALL
        /\ res.out.pheno = PH_INDETERMINADO
        /\ res.out.rec = IF C6_RowText = <<>> THEN SAFE_FALLBACK ELSE C6_RowText

\* the default genotype "-/-" with a table row for "Indeterminado": the
\* recommendation is the row's text without its citation and its URL
C6_Witness ==
    /\ res.op = "ugt1a1_from_markers"
    /\ res.args[1] = NO_CALL
    /\ res.out.pheno = PH_INDETERMINADO
    /\ res.out.rec = TXT_PLAIN

\* C7: UGT1A1 marker mode maps C/C to "*1/*1" and "Metabolizador normal",
\* C/T or T/C to "*1/*28" and "Metabolizador intermedio", T/T to "*28/*28"
\* and "Metabolizador lento".
C7_UgtMarkerMode ==
    res.op = "ugt1a1_from_markers" =>
        /\ res.args[1] = GENO_CC =>
               res.out.dipl = DIPL_1_1 /\ res.out.pheno = PH_NORMAL
        /\ res.args[1] \in {GENO_CT, GENO_TC} =>
               res.out.dipl = DIPL_1_28 /\ res.out.pheno = PH_INTERMEDIO
        /\ res.args[1] = GENO_TT =>
               res.out.dipl = DIPL_28_28 /\ res.out.pheno = PH_LENTO

C7_Witness ==
    /\ res.op = "ugt1a1_from_markers"
    /\ res.args[1] = GENO_TC
    /\ res.out.dipl = DIPL_1_28
    /\ res.out.pheno = PH_INTERMEDIO

\* C8: ugt1a1_from_diplotype(a1, a2) and ugt1a1_from_diplotype(a2, a1) return
\* the same phenotype (normal, intermedio, lento for 0, 1, 2 alleles among
\* *28, *80, *6, *37), the same lexically sorted diplotype, the same
\* recommendation and the same note.
C8_SwapInvariant ==
    res.op = "ugt1a1_from_diplotype" =>
        LET a1 == res.args[1]
            a2 == res.args[2]
            n  == Cardinality({i \in 1..2 : res.args[i] \in {STAR28, STAR80, STAR6, STAR37}})
            lo == IF StrLess(a1, a2) THEN a1 ELSE a2
            hi == IF StrLess(a1, a2) THEN a2 ELSE a1
        IN  /\ res.out = ugt1a1_from_diplotype(a2, a1)
            /\ res.out.pheno = (IF n = 0 THEN PH_NORMAL
                                ELSE IF n = 1 THEN PH_INTERMEDIO ELSE PH_LENTO)
            /\ res.out.dipl = lo \o <<"/">> \o hi

\* ("*28", "*1") classified: the diplotype is written "*1/*28"
C8_Witness ==
    /\ res.op = "ugt1a1_from_diplotype"
    /\ res.args = <<STAR28, STAR1>>
    /\ res.out.dipl = DIPL_1_28
    /\ res.out.pheno = PH_INTERMEDIO

\* the ten-entry short table of claim C9, as (gene, lower-cased phenotype)
C9_ShortKeys ==
    ({"DPYD", "UGT1A1"} \X {KEY_NORMAL, KEY_INTERMEDIO, KEY_LENTO})
    \cup ({"CYP2D6"} \X {KEY_NORMAL, KEY_INTERMEDIO, KEY_POBRE, KEY_ULTRA})

\* a text as the cleaning leaves it: no "[...]", no URL, single inner spaces
C9_Cleaned(t) ==
    /\ t # <<>>
    /\ ~IsSpace(t[1]) /\ ~IsSpace(t[Len(t)])
    /\ \A i \in 1..(Len(t) - 1) : ~(IsSpace(t[i]) /\ IsSpace(t[i + 1]))
    /\ \A i \in 1..Len(t) : t[i] = "[" => \A j \in (i + 1)..Len(t) : t[j] # "]"
    /\ \A i \in 1..Len(t) :
           \A scheme \in {HTTP, HTTPS} :
               StartsWith(SubSeq(t, i, Len(t)), scheme) =>
                   i + Len(scheme) > Len(t) \/ IsSpace(t[i + Len(scheme)])

\* C9: rtext_short never returns an empty string: a (gene, lower-cased
\* phenotype) hit in the short table is returned first, otherwise the cleaned
\* long text, otherwise the fixed safe-fallback sentence.
C9_NeverEmpty ==
    res.op = "rtext_short" =>
        LET gene == res.args[1]
            key  == Lower(res.args[2])
            long == res.args[3]
        IN  /\ res.out # <<>>
            /\ <<gene, key>> \in C9_ShortKeys =>
                   \E i \in 1..Len(SHORT_REC) :
                       /\ SHORT_REC[i].gene = gene /\ SHORT_REC[i].pheno = key
                       /\ res.out = SHORT_REC[i].text
            /\ <<gene, key>> \notin C9_ShortKeys =>
                   \/ res.out = SAFE_FALLBACK /\ CleanLongText(long) = <<>>
                   \/ res.out = CleanLongText(long) /\ C9_Cleaned(res.out)

\* no short entry for the gene and a long text that is a URL and a space
\* only: the safe-fallback sentence
C9_Witness ==
    /\ res.op = "rtext_short"
    /\ res.args = <<"TPMT", PH_NORMAL, Some(HTTPS \o <<"a">> \o <<" ">>)>>
    /\ res.out = SAFE_FALLBACK


\* the requests that have taken their temporary path and not yet responded
C10_InFlight ==
    {r \in Requests :
         req[r].pc \in {"rendered", "saved", "reopened", "refitted", "converted", "fallback"}}

\* no two in-flight requests use the same temporary DOCX path
C10_DistinctTmpPaths ==
    \A r1 \in C10_InFlight, r2 \in C10_InFlight :
        r1 # r2 => TmpDocx(req[r1].now) # TmpDocx(req[r2].now)

\* the file sent to a requester is the document rendered from its own form
C10_SentOwnDocument ==
    \A r \in Requests :
        req[r].pc = "done" =>
            [req[r].sent EXCEPT !.fitted = FALSE, !.pdf = FALSE] = req[r].rendered

\* C10: temporary export artifacts are isolated per request: no two in-flight
\* generate requests write, refit or send the same temporary DOCX path, so
\* every requester is sent the document rendered from its own form.
C10_IsolatedPerRequest == C10_DistinctTmpPaths /\ C10_SentOwnDocument


-----------------------------------------------------------------------------
\* a label written with a leading "*"
C11_IsStarLabel(x) == x # <<>> /\ x[1] = "*"

\* the order the example of the comment at routes.py:61 gives
C11_EXAMPLE == <<STAR1, STAR2A, STAR13, HAPB3>>

\* C11: _collect_stars returns every "*"-prefixed label before every plain
\* label, and returns the label set {"*1","*2A","*13","HapB3"} in the order
\* "*1","*2A","*13","HapB3".
C11_HumanOrder ==
    res.op = "_collect_stars" =>
        LET ret == res.out.ret
        IN  /\ \A i, j \in 1..Len(ret) :
                   C11_IsStarLabel(ret[i]) /\ ~C11_IsStarLabel(ret[j]) => i < j
            /\ {ret[i] : i \in 1..Len(ret)} = {C11_EXAMPLE[i] : i \in 1..Len(C11_EXAMPLE)}
                   => ret = C11_EXAMPLE

\* C12: every call of _collect_stars returns, and what it returns holds "*1"
\* and every label of the extra list, and holds no label twice.
C12_AlwaysHoldsStar1 ==
    res.op = "_collect_stars" =>
        LET ret   == res.out.ret
            extra == res.args[2]
        IN  /\ res.out.raised = "none"
            /\ \E i \in 1..Len(ret) : ret[i] = STAR1
            /\ \A k \in 1..Len(extra) : \E i \in 1..Len(ret) : ret[i] = extra[k]
            /\ \A i, j \in 1..Len(ret) : ret[i] = ret[j] => i = j

\* a gene whose two markers have the star fields "-" and "", called with an
\* extra list that repeats a label and names "*1"
C12_Witness ==
    /\ res.op = "_collect_stars"
    /\ res.args = <<"DPYD", <<STAR13, STAR1, STAR13>>>>
    /\ Len(MARKERS["DPYD"]) = 2
    /\ MARKERS["DPYD"][1].star = DASH
    /\ MARKERS["DPYD"][2].star = <<>>
    /\ res.out.ret = <<STAR1, STAR13>>


-----------------------------------------------------------------------------
\* the rows of a results table by position: gene and drug label
C13_Fixed ==
    << <<"DPYD", DRUG_DPYD>>, <<"CYP2D6", DRUG_CYP>>, <<"UGT1A1", DRUG_UGT>> >>

\* what the classifier of the i-th row's gene returns for the form
C13_Own(form, i) ==
    IF i = 1 THEN GenDpyd(form) ELSE IF i = 2 THEN GenCyp(form) ELSE GenUgt(form)

\* C13: whenever a handler builds its results table (the preview of index,
\* the summary of generate), the table has exactly 3 rows, in the order DPYD,
\* CYP2D6, UGT1A1, each with the diplotype, phenotype and recommendation its
\* own gene's classifier returned for the form and with its fixed drug label.
C13_ThreeRowsFixedOrder ==
    /\ res.op = "index" /\ res.out.raised = "none" =>
           /\ Len(res.out.preview) = 3
           /\ \A i \in 1..3 :
                  LET row == res.out.preview[i]
                      own == C13_Own(res.args[1], i)
                  IN  /\ row.gen = C13_Fixed[i][1] /\ row.drug = C13_Fixed[i][2]
                      /\ row.dipl = own.dipl /\ row.pheno = own.pheno /\ row.rec = own.rec
    /\ res.op = "generate" /\ res.out.raised = "none" =>
           /\ Len(res.out.summary) = 3
           /\ \A i \in 1..3 :
                  LET row == res.out.summary[i]
                      own == C13_Own(res.args[1], i)
                  IN  /\ row.gen = C13_Fixed[i][1] /\ row.drug = C13_Fixed[i][2]
                      /\ row.diplotipo = own.dipl /\ row.fenotipo = own.pheno
                      /\ row.rec = own.rec

\* an export with a different mode per gene: DPYD from the diplotype *2A/*1,
\* CYP2D6 from its marker (C/T, *1/*4) and UGT1A1 from its marker (T/T)
C13_Witness ==
    /\ res.op = "generate"
    /\ res.out.raised = "none"
    /\ res.out.modes = [dpyd |-> MODE_DIPLOTYPE, ugt |-> MODE_MARKERS, cyp |-> MODE_MARKERS]
    /\ res.out.summary[1].diplotipo = Slashed(STAR2A, STAR1)
    /\ res.out.summary[1].fenotipo = PH_INTERMEDIO
    /\ res.out.summary[2].diplotipo = DIPL_1_4
    /\ res.out.summary[3].diplotipo = DIPL_28_28
    /\ res.out.summary[3].fenotipo = PH_LENTO


-----------------------------------------------------------------------------
\* C14: for the same form fields, index and generate read the same mode for
\* each gene, end the same way (both build their table or both raise the same
\* exception), and build rows with the same gene, diplotype, phenotype, drug
\* and recommendation.
C14_PreviewEqualsExport ==
    res.op = "generate" =>
        LET pre == res.out.previewed
        IN  /\ pre.modes = res.out.modes
            /\ pre.raised = res.out.raised
            /\ Len(pre.preview) = Len(res.out.summary)
            /\ \A i \in 1..Len(pre.preview) :
                   /\ pre.preview[i].gen   = res.out.summary[i].gen
                   /\ pre.preview[i].dipl  = res.out.summary[i].diplotipo
                   /\ pre.preview[i].pheno = res.out.summary[i].fenotipo
                   /\ pre.preview[i].drug  = res.out.summary[i].drug
                   /\ pre.preview[i].rec   = res.out.summary[i].rec

\* a form with no mode and no allele field and with both genotypes called:
\* the defaults decide (markers for DPYD and UGT1A1, diplotype *1/*1 for CYP2D6)
C14_Witness ==
    /\ res.op = "generate"
    /\ DOMAIN res.args[1].fields = {}
    /\ res.args[1].genos = (ColName(1) :> GENO_CT) @@ (COL_UGT :> GENO_TT)
    /\ res.out.raised = "none"
    /\ res.out.modes = [dpyd |-> MODE_MARKERS, ugt |-> MODE_MARKERS, cyp |-> MODE_DIPLOTYPE]
    /\ res.out.previewed.preview[1].dipl = Slashed(STAR1, STAR2A)
    /\ res.out.previewed.preview[2].dipl = DIPL_1_1
    /\ res.out.previewed.preview[3].dipl = DIPL_28_28
    /\ res.out.summary[2].diplotipo = DIPL_1_1


-----------------------------------------------------------------------------
\* the rows of the CYP2D6 table for a diplotype
C15_Rows(dipl) == {i \in 1..Len(CYP_PHENO) : CYP_PHENO[i].Diplotype = dipl}

\* C15: a CYP2D6 call whose diplotype has no row in the table returns
\* "Metabolizador pobre", "Metabolizador intermedio" or "Metabolizador normal"
\* (each allele scores at most 1.0, the sum at most 2.0), and a call that
\* returns "Metabolizador ultrarrapido" took it from a row of the table whose
\* summary starts with "Ultrarapid".
C15_HeuristicNeverUltrarapid ==
    (/\ res.op \in {"cyp2d6_from_stars", "cyp2d6_from_markers"}
     /\ res.out.raised = "none")
    => /\ C15_Rows(res.out.dipl) = {} =>
              /\ res.out.pheno \in {PH_POBRE, PH_INTERMEDIO, PH_NORMAL}
              /\ \A k \in 1..Len(SplitOn(res.out.dipl, "/")) :
                     ascore(SplitOn(res.out.dipl, "/")[k]) <= 4
       /\ res.out.pheno = PH_ULTRA =>
              \E i \in C15_Rows(res.out.dipl) :
                  StartsWith(CYP_PHENO[i].Summary, K_ULTRARAPID)

\* the highest score the heuristic can reach: "*1/*1" with no row for it
\* scores 2.0 and is returned as "Metabolizador normal"
C15_Witness ==
    /\ res.op = "cyp2d6_from_stars"
    /\ res.args = <<STAR1, STAR1>>
    /\ C15_Rows(DIPL_1_1) = {}
    /\ ascore(STAR1) + ascore(STAR1) = 8
    /\ res.out.pheno = PH_NORMAL

=============================================================================
